---------------------------- MODULE Spec2Model ----------------------------
(***************************************************************************)
(* Model of scripts/check_transparent_icons.py: main() walks the four      *)
(* required icon files and calls png_has_transparency() on each one that   *)
(* exists.  png_has_transparency() parses the PNG chunk sequence, inflates *)
(* the concatenated IDAT payload, reverses the scanline filters and looks  *)
(* for an alpha sample (colour type 6) or a tRNS entry (colour type 3)     *)
(* below 255.                                                              *)
(*                                                                         *)
(* Files are sequences of bytes (0..255).  Offsets are 0-based as in the   *)
(* source; Slice and At translate to TLA+'s 1-based sequences.             *)
(***************************************************************************)
EXTENDS Integers, Sequences, FiniteSets, TLC

VARIABLES
    pc,        \* position of main(): "loop", "call", "exit" or "done"
    icon,      \* 1-based index of the current entry of REQUIRED_ICON_FILES
    failures,  \* main()'s list of failure lines
    evaluated, \* history: the outcome of every icon main() has dealt with
    exit_code, \* value returned by main(), None before it returns
    frame,     \* locals of the running png_has_transparency() call
    fixture,   \* scanline harness: the raster a stream was filtered from
    args,      \* _paeth harness: the argument triple
    ret        \* _paeth harness: the value returned

vars == <<pc, icon, failures, evaluated, exit_code, frame, fixture, args, ret>>

-----------------------------------------------------------------------------
(* Bytes and slices *)

\* Python's None for the integer locals (all real values are unsigned).
None == 0 - 1

\* Python's None for trns_chunk (no byte sequence contains a negative entry).
NoneChunk == <<None>>

Min(a, b) == IF a <= b THEN a ELSE b

Abs(n) == IF n < 0 THEN 0 - n ELSE n

\* s[k] for a 0-based index k that is in range.
At(s, k) == s[k + 1]

\* Python's s[a:b] for 0 <= a: the slice is clamped to the sequence.
Slice(s, a, b) == SubSeq(s, a + 1, Min(b, Len(s)))

\* bytes(n): n zero bytes.
Zeros(n) == [k \in 1..n |-> 0]

\* Body applied to the value of e, with e evaluated once.
With(e, Body(_)) == CHOOSE r \in {Body(x) : x \in {e}} : TRUE

RECURSIVE Concat(_)
\* Concatenation of a sequence of byte sequences.
Concat(ss) == IF ss = <<>> THEN <<>> ELSE Head(ss) \o Concat(Tail(ss))

\* data.startswith(prefix)
StartsWith(data, prefix) ==
    /\ Len(data) >= Len(prefix)
    /\ SubSeq(data, 1, Len(prefix)) = prefix

\* struct.unpack(">I", b)[0] for four bytes at 0-based offset off.  TLC's
\* integers are 32 bits wide and signed: the files modelled keep every length
\* field below 2^31, and TLC stops with an overflow error on any other.
U32(data, off) ==
    At(data, off) * 16777216 + At(data, off + 1) * 65536
        + At(data, off + 2) * 256 + At(data, off + 3)

\* struct.pack(">I", n)
PackU32(n) ==
    << (n \div 16777216) % 256, (n \div 65536) % 256, (n \div 256) % 256, n % 256 >>

PNG_SIGNATURE == <<137, 80, 78, 71, 13, 10, 26, 10>>

NumIcons == 4

IHDR == <<73, 72, 68, 82>>

tRNS == <<116, 82, 78, 83>>

IDAT == <<73, 68, 65, 84>>

IEND == <<73, 69, 78, 68>>


-----------------------------------------------------------------------------
(* zlib.decompress, the external inflate: a zlib header, deflate blocks    *)
(* (stored, fixed Huffman, dynamic Huffman) and an Adler-32 trailer.         *)
(* Bit positions count from the start of the stream, least significant bit  *)
(* of each byte first.                                                       *)

RECURSIVE AdlerSums(_, _, _)
\* Over s[lo..hi], modulo 65521: the sum of the bytes, and the sum of the
\* bytes each counted once for every position from its own to hi.
AdlerSums(s, lo, hi) ==
    IF lo > hi THEN <<0, 0>>
    ELSE IF lo = hi THEN <<s[lo], s[lo]>>
    ELSE LET mid == (lo + hi) \div 2
         IN  With(AdlerSums(s, lo, mid), LAMBDA left :
             With(AdlerSums(s, mid + 1, hi), LAMBDA right :
                <<(left[1] + right[1]) % 65521,
                  (left[2] + ((left[1] * (hi - mid)) % 65521) + right[2]) % 65521>>))

\* zlib's Adler-32 checksum of a byte sequence, as its four big-endian bytes:
\* a is 1 plus the sum of the bytes, b the sum of the successive values of a.
Adler32(s) ==
    With(AdlerSums(s, 1, Len(s)), LAMBDA sums :
        LET a == (1 + sums[1]) % 65521
            b == (Len(s) + sums[2]) % 65521
        IN  <<b \div 256, b % 256, a \div 256, a % 256>>)

\* zlib.error, as the result of zlib.decompress.
InflateError == [ok |-> FALSE, out |-> <<>>]

\* The decoder's state inside a stream: the bit position, the output so far,
\* whether the current loop has ended (done) and whether it ended well (ok);
\* sym is the symbol a Decode returned.
Going(bp, out) == [ok |-> TRUE, done |-> FALSE, pos |-> bp, out |-> out, sym |-> 0]

Ended(bp, out) == [ok |-> TRUE, done |-> TRUE, pos |-> bp, out |-> out, sym |-> 0]

\* The state after an error in the stream.
Failed == [ok |-> FALSE, done |-> TRUE, pos |-> 0, out |-> <<>>, sym |-> 0]

\* n more bits can be read at bit position bp.
HaveBits(s, bp, n) == bp + n <= 8 * Len(s)

BitAt(s, bp) == (At(s, bp \div 8) \div (2 ^ (bp % 8))) % 2

RECURSIVE Bits(_, _, _)
\* The n-bit integer at bit position bp, least significant bit first.
Bits(s, bp, n) == IF n = 0 THEN 0 ELSE BitAt(s, bp) + 2 * Bits(s, bp + 1, n - 1)

\* The next byte boundary at or after bit position bp.
ByteAlign(bp) == ((bp + 7) \div 8) * 8

\* A canonical Huffman code from the code lengths of symbols 0..n-1: the
\* number of codes of each length 0..15 (count[len + 1]) and the symbols
\* ordered by length.
HuffmanTable(lens) ==
    [count  |-> Concat([l \in 1..16 |->
                    <<Cardinality({k \in 1..Len(lens) : lens[k] = l - 1})>>]),
     symbol |-> Concat([l \in 1..15 |->
                    SelectSeq([k \in 1..Len(lens) |-> k - 1],
                              LAMBDA sym : lens[sym + 1] = l)]),
     size   |-> Len(lens)]

RECURSIVE CodeSpace(_, _, _)
\* The code space left after the lengths len..15: negative when the lengths
\* are over-subscribed, positive when the code is incomplete.
CodeSpace(h, len, left) ==
    IF len > 15 THEN left
    ELSE LET rest == 2 * left - h.count[len + 1]
         IN  IF rest < 0 THEN rest ELSE CodeSpace(h, len + 1, rest)

CodeLeft(h) == IF h.count[1] = h.size THEN 0 ELSE CodeSpace(h, 1, 1)

\* A literal/length or distance code inflate accepts: complete, or a single
\* code of length 1.
CodeUsable(h) ==
    \/ CodeLeft(h) = 0
    \/ CodeLeft(h) > 0 /\ h.size = h.count[1] + h.count[2]

RECURSIVE DecodeLoop(_, _, _, _, _, _, _)
DecodeLoop(s, bp, h, len, code, first, index) ==
    IF len > 15 \/ ~HaveBits(s, bp, 1) THEN Failed
    ELSE LET c == code + BitAt(s, bp)
             count == h.count[len + 1]
         IN  IF c - count < first
             THEN [Ended(bp + 1, <<>>) EXCEPT !.sym = h.symbol[index + (c - first) + 1]]
             ELSE DecodeLoop(s, bp + 1, h, len + 1, 2 * c, 2 * (first + count),
                             index + count)

\* The symbol whose code starts at bit position bp, and the position after it.
Decode(s, bp, h) == DecodeLoop(s, bp, h, 1, 0, 0, 0)

LengthBase ==
    <<3, 4, 5, 6, 7, 8, 9, 10, 11, 13, 15, 17, 19, 23, 27, 31, 35, 43, 51, 59,
      67, 83, 99, 115, 131, 163, 195, 227, 258>>

LengthExtra ==
    <<0, 0, 0, 0, 0, 0, 0, 0, 1, 1, 1, 1, 2, 2, 2, 2, 3, 3, 3, 3, 4, 4, 4, 4,
      5, 5, 5, 5, 0>>

DistBase ==
    <<1, 2, 3, 4, 5, 7, 9, 13, 17, 25, 33, 49, 65, 97, 129, 193, 257, 385, 513,
      769, 1025, 1537, 2049, 3073, 4097, 6145, 8193, 12289, 16385, 24577>>

DistExtra ==
    <<0, 0, 0, 0, 1, 1, 2, 2, 3, 3, 4, 4, 5, 5, 6, 6, 7, 7, 8, 8, 9, 9, 10, 10,
      11, 11, 12, 12, 13, 13>>

\* n bytes copied from dist bytes back, one at a time: when the ranges
\* overlap, the last dist bytes repeat.
CopyMatch(out, dist, n) ==
    out \o [k \in 1..n |-> out[Len(out) - dist + 1 + ((k - 1) % dist)]]

\* The match of length symbol lsym at bit position bp: the extra length
\* bits, the distance code, the extra distance bits, the copy.
CodesMatch(s, bp, out, lsym, distcode) ==
    LET k == lsym - 257 + 1
    IN  IF ~HaveBits(s, bp, LengthExtra[k]) THEN Failed
        ELSE With(Decode(s, bp + LengthExtra[k], distcode), LAMBDA dd :
            IF ~dd.ok \/ dd.sym >= 30 THEN Failed
            ELSE IF ~HaveBits(s, dd.pos, DistExtra[dd.sym + 1]) THEN Failed
            ELSE LET n    == LengthBase[k] + Bits(s, bp, LengthExtra[k])
                     dist == DistBase[dd.sym + 1]
                               + Bits(s, dd.pos, DistExtra[dd.sym + 1])
                 IN  IF dist > Len(out) THEN Failed
                     ELSE Going(dd.pos + DistExtra[dd.sym + 1],
                                CopyMatch(out, dist, n)))

\* One literal, match or end-of-block of a Huffman-coded block.
CodesStep(s, st, lencode, distcode) ==
    With(Decode(s, st.pos, lencode), LAMBDA d :
        IF ~d.ok THEN Failed
        ELSE IF d.sym < 256 THEN Going(d.pos, Append(st.out, d.sym))
        ELSE IF d.sym = 256 THEN Ended(d.pos, st.out)
        ELSE IF d.sym - 257 >= 29 THEN Failed
        ELSE CodesMatch(s, d.pos, st.out, d.sym, distcode))

RECURSIVE RunLevels(_)
\* The least number of doublings that cover n steps.
RunLevels(n) == IF n <= 1 THEN 0 ELSE 1 + RunLevels((n + 1) \div 2)

RECURSIVE CodesRun(_, _, _, _, _)
\* Up to 2^level steps of CodesStep from state st, stopping at the first that
\* ends.
CodesRun(s, st, lencode, distcode, level) ==
    IF st.done THEN st
    ELSE IF level = 0 THEN CodesStep(s, st, lencode, distcode)
    ELSE With(CodesRun(s, st, lencode, distcode, level - 1), LAMBDA mid :
            CodesRun(s, mid, lencode, distcode, level - 1))

\* The literals and matches of a Huffman-coded block up to its end-of-block.
\* Every symbol takes at least one bit, so 8 * Len(s) steps reach the end.
InflateCodes(s, bp, out, lencode, distcode) ==
    With(Going(bp, out), LAMBDA st :
        CodesRun(s, st, lencode, distcode, RunLevels(8 * Len(s))))

\* The fixed literal/length code (288 symbols) and distance code (30 symbols).
FixedLengthCode ==
    HuffmanTable([k \in 1..288 |-> IF k <= 144 THEN 8 ELSE IF k <= 256 THEN 9
                                   ELSE IF k <= 280 THEN 7 ELSE 8])

FixedDistCode == HuffmanTable([k \in 1..30 |-> 5])

\* The order in which a dynamic block stores the code length code lengths.
CodeLengthOrder == <<16, 17, 18, 0, 8, 7, 9, 6, 10, 5, 11, 4, 12, 3, 13, 2, 14, 1, 15>>

\* One code length symbol of a dynamic block: a length, or a repeat.
LengthsStep(s, st, h, total) ==
    With(Decode(s, st.pos, h), LAMBDA d :
        LET lens  == st.out
            extra == CASE d.sym = 16 -> 2 [] d.sym = 17 -> 3 [] OTHER -> 7
            base  == CASE d.sym = 16 -> 3 [] d.sym = 17 -> 3 [] OTHER -> 11
            rep   == base + Bits(s, d.pos, extra)
            len   == IF d.sym = 16 THEN lens[Len(lens)] ELSE 0
            next(bp, ls) == IF Len(ls) = total THEN Ended(bp, ls) ELSE Going(bp, ls)
        IN  IF ~d.ok THEN Failed
            ELSE IF d.sym < 16 THEN next(d.pos, Append(lens, d.sym))
            ELSE IF d.sym = 16 /\ lens = <<>> THEN Failed
            ELSE IF ~HaveBits(s, d.pos, extra) THEN Failed
            ELSE IF Len(lens) + rep > total THEN Failed
            ELSE With(lens \o [k \in 1..rep |-> len], LAMBDA ls :
                    next(d.pos + extra, ls)))

RECURSIVE LengthsRun(_, _, _, _, _)
\* Up to 2^level steps of LengthsStep from state st, stopping at the first
\* that ends.
LengthsRun(s, st, h, total, level) ==
    IF st.done THEN st
    ELSE IF level = 0 THEN LengthsStep(s, st, h, total)
    ELSE With(LengthsRun(s, st, h, total, level - 1), LAMBDA mid :
            LengthsRun(s, mid, h, total, level - 1))

\* The literal/length and distance code lengths of a dynamic block, total in
\* all (at least 258), run-length coded with the code length code h; every
\* step gives at least one length.
ReadLengths(s, bp, h, total) ==
    With(Going(bp, <<>>), LAMBDA st : LengthsRun(s, st, h, total, RunLevels(total)))

\* The code length code of a dynamic block: ncode lengths of three bits at
\* bit position bp, in CodeLengthOrder.
CodeLengthCode(s, bp, ncode) ==
    HuffmanTable(Concat([sym \in 1..19 |->
        LET idx == CHOOSE j \in 1..19 : CodeLengthOrder[j] = sym - 1
        IN  <<IF idx <= ncode THEN Bits(s, bp + 3 * (idx - 1), 3) ELSE 0>>]))

\* The body of a dynamic block whose nlen + ndist code lengths are r.out.
DynamicCodes(s, r, out, nlen, ndist) ==
    IF ~r.ok THEN Failed
    ELSE IF r.out[257] = 0 THEN Failed
    ELSE With(HuffmanTable(SubSeq(r.out, 1, nlen)), LAMBDA lencode :
         With(HuffmanTable(SubSeq(r.out, nlen + 1, nlen + ndist)), LAMBDA distcode :
            IF ~CodeUsable(lencode) \/ ~CodeUsable(distcode) THEN Failed
            ELSE InflateCodes(s, r.pos, out, lencode, distcode)))

\* A dynamic Huffman block from the bit after its three header bits.
InflateDynamic(s, bp, out) ==
    IF ~HaveBits(s, bp, 14) THEN Failed
    ELSE LET nlen  == Bits(s, bp, 5) + 257
             ndist == Bits(s, bp + 5, 5) + 1
             ncode == Bits(s, bp + 10, 4) + 4
         IN  IF nlen > 286 \/ ndist > 30 THEN Failed
             ELSE IF ~HaveBits(s, bp + 14, 3 * ncode) THEN Failed
             ELSE With(CodeLengthCode(s, bp + 14, ncode), LAMBDA h :
                    IF CodeLeft(h) # 0 THEN Failed
                    ELSE With(ReadLengths(s, bp + 14 + 3 * ncode, h, nlen + ndist),
                              LAMBDA r : DynamicCodes(s, r, out, nlen, ndist)))

\* A stored block from the bit after its three header bits.
InflateStored(s, bp, out) ==
    LET off  == ByteAlign(bp) \div 8
        len  == At(s, off) + 256 * At(s, off + 1)
        nlen == At(s, off + 2) + 256 * At(s, off + 3)
    IN  IF off + 4 > Len(s) THEN Failed
        ELSE IF len + nlen # 65535 \/ off + 4 + len > Len(s) THEN Failed
        ELSE Ended(8 * (off + 4 + len), out \o Slice(s, off + 4, off + 4 + len))

\* The block of type btype from the bit after its three header bits.
InflateBlock(s, bp, out, btype) ==
    CASE btype = 0 -> InflateStored(s, bp, out)
      [] btype = 1 -> InflateCodes(s, bp, out, FixedLengthCode, FixedDistCode)
      [] btype = 2 -> InflateDynamic(s, bp, out)
      [] OTHER -> Failed

\* One deflate block at st.pos; after the final block, the Adler-32 trailer
\* at the next byte boundary.
BlockStep(s, st) ==
    IF ~HaveBits(s, st.pos, 3) THEN Failed
    ELSE With(InflateBlock(s, st.pos + 3, st.out, Bits(s, st.pos + 1, 2)), LAMBDA blk :
            LET bfinal == BitAt(s, st.pos)
                stop == ByteAlign(blk.pos) \div 8
            IN  IF ~blk.ok THEN Failed
                ELSE IF bfinal = 0 THEN Going(blk.pos, blk.out)
                ELSE IF stop + 4 > Len(s) THEN Failed
                ELSE IF Slice(s, stop, stop + 4) # Adler32(blk.out) THEN Failed
                ELSE Ended(8 * (stop + 4), blk.out))

RECURSIVE BlocksRun(_, _, _)
\* Up to 2^level steps of BlockStep from state st, stopping at the first that
\* ends.
BlocksRun(s, st, level) ==
    IF st.done THEN st
    ELSE IF level = 0 THEN BlockStep(s, st)
    ELSE With(BlocksRun(s, st, level - 1), LAMBDA mid : BlocksRun(s, mid, level - 1))

\* The deflate blocks of stream s from byte offset off, then the trailer; acc
\* is the output so far.  Every block takes at least three bits, so
\* 8 * Len(s) steps reach the end.  Bytes after the trailer are ignored, as
\* zlib.decompress ignores them.
InflateBlocks(s, off, acc) ==
    With(Going(8 * off, acc), LAMBDA st :
        With(BlocksRun(s, st, RunLevels(8 * Len(s))), LAMBDA r :
            IF r.ok THEN [ok |-> TRUE, out |-> r.out] ELSE InflateError))

\* zlib.decompress(s): ok = FALSE stands for zlib.error, out is the data.
Inflate(s) ==
    IF Len(s) < 2 THEN InflateError
    ELSE LET cmf == At(s, 0)
             flg == At(s, 1)
         IN  IF \/ cmf % 16 # 8
                \/ cmf \div 16 > 7
                \/ (cmf * 256 + flg) % 31 # 0
                \/ (flg \div 32) % 2 # 0
             THEN InflateError
             ELSE InflateBlocks(s, 2, <<>>)

-----------------------------------------------------------------------------
(* _paeth and the scanline filters *)

\* _paeth with the comparisons strict: ties fall through to c.
PaethStrict(a, b, c) ==
    LET p  == a + b - c
        pa == Abs(p - a)
        pb == Abs(p - b)
        pc_ == Abs(p - c)
    IN  IF pa < pb /\ pa < pc_ THEN a
        ELSE IF pb < pc_ THEN b
        ELSE c

_paeth(a, b, c) ==
    LET p  == a + b - c
        pa == Abs(p - a)
        pb == Abs(p - b)
        pc_ == Abs(p - c)
    IN  IF pa <= pb /\ pa <= pc_ THEN a
        ELSE IF pb <= pc_ THEN b
        ELSE c

\* row[x - bpp] without the x >= bpp guard: Python's negative index wraps.
LeftWrapped(row, x, bpp) ==
    IF x >= bpp THEN At(row, x - bpp) ELSE At(row, x - bpp + Len(row))

\* left = row[x - bpp] if x >= bpp else 0   (also up_left, on prev)
Left(row, x, bpp) == IF x >= bpp THEN At(row, x - bpp) ELSE 0

\* The reconstructed byte at position x of a row; row holds the bytes already
\* reconstructed to the left of x and the filtered bytes from x on.
ReconByte(filter_type, row, prev, bpp, x) ==
    CASE filter_type = 0 -> At(row, x)
      [] filter_type = 1 -> (At(row, x) + Left(row, x, bpp)) % 256
      [] filter_type = 2 -> (At(row, x) + At(prev, x)) % 256
      [] filter_type = 3 ->
            (At(row, x) + ((Left(row, x, bpp) + At(prev, x)) \div 2)) % 256
      [] filter_type = 4 ->
            (At(row, x)
                + _paeth(Left(row, x, bpp), At(prev, x), Left(prev, x, bpp))) % 256
      [] OTHER -> At(row, x)  \* not reached: ReconstructRow raises first

RECURSIVE ReconLoop(_, _, _, _, _)
\* for x in range(row_len): row[x] = ...
ReconLoop(filter_type, row, prev, bpp, x) ==
    IF x >= Len(row) THEN row
    ELSE ReconLoop(filter_type,
                   [row EXCEPT ![x + 1] = ReconByte(filter_type, row, prev, bpp, x)],
                   prev, bpp, x + 1)

-----------------------------------------------------------------------------
(* png_has_transparency *)

Raise(f, exc) == [f EXCEPT !.pc = "raised", !.result = exc]

Return(f, value) == [f EXCEPT !.pc = "returned", !.result = value]

\* The locals before the call has assigned any of them.
NoFrame ==
    [pc |-> "idle", data |-> <<>>, i |-> None, width |-> None, height |-> None,
     bit_depth |-> None, color_type |-> None, trns_chunk |-> NoneChunk,
     idat |-> <<>>, bpp |-> None, raw |-> <<>>, row_len |-> None, out |-> <<>>,
     raw_index |-> None, y |-> None, result |-> "None"]

\* Entry of the call up to the while loop.
Enter(data) ==
    LET f == [NoFrame EXCEPT !.data = data]
    IN  IF ~StartsWith(data, PNG_SIGNATURE) THEN Raise(f, "is not a PNG file")
        ELSE [f EXCEPT !.pc = "walk", !.i = Len(PNG_SIGNATURE)]

\* struct.calcsize(">IIBBBBB")
IHDRSize == 13

\* The IHDR branch: struct.unpack raises unless the payload is 13 bytes long.
UnpackHeader(g, chunk_data) ==
    IF Len(chunk_data) # IHDRSize THEN Raise(g, "struct.error")
    ELSE [g EXCEPT !.width = U32(chunk_data, 0),
                   !.height = U32(chunk_data, 4),
                   !.bit_depth = At(chunk_data, 8),
                   !.color_type = At(chunk_data, 9)]

\* The IEND branch with the break left out.
NoBreak(g) == g

\* The IEND branch: break.
Break(g) == [g EXCEPT !.pc = "check"]

\* The truncation test with the four CRC bytes left out.
ChunkFitsNoCrc(f, length) == f.i + 8 + length <= Len(f.data)

\* not (crc_end > len(data))
ChunkFits(f, length) == f.i + 8 + length + 4 <= Len(f.data)

\* One iteration of the while loop, entered with i < len(data).
WalkChunk(f) ==
    IF f.i + 8 > Len(f.data) THEN Raise(f, "is truncated (invalid chunk header)")
    ELSE LET length      == U32(f.data, f.i)
             chunk_type  == Slice(f.data, f.i + 4, f.i + 8)
             chunk_start == f.i + 8
             chunk_end   == chunk_start + length
             crc_end     == chunk_end + 4
             chunk_data  == Slice(f.data, chunk_start, chunk_end)
             g           == [f EXCEPT !.i = crc_end]
         IN  IF ~ChunkFits(f, length)
             THEN Raise(f, "is truncated (invalid chunk length)")
             ELSE IF chunk_type = IHDR THEN UnpackHeader(g, chunk_data)
             ELSE IF chunk_type = tRNS THEN [g EXCEPT !.trns_chunk = chunk_data]
             ELSE IF chunk_type = IDAT THEN [g EXCEPT !.idat = g.idat \o chunk_data]
             ELSE IF chunk_type = IEND THEN Break(g)
             ELSE g

\* The while loop is over: by break, or because i < len(data) fails.
WalkOver(f) == f.pc = "check" \/ (f.pc = "walk" /\ f.i >= Len(f.data))

\* The size test rejecting only a stream that is too short.
SizeAtLeast(raw, expected_len) == Len(raw) >= expected_len

\* not (len(raw) != expected_len)
SizeOk(raw, expected_len) == Len(raw) = expected_len

\* zlib.decompress and the size test, up to the start of the row loop.
Decompress(f, bpp) ==
    With(Inflate(f.idat), LAMBDA z :
        LET row_len      == f.width * bpp
            expected_len == f.height * (1 + row_len)
            g            == [f EXCEPT !.bpp = bpp, !.raw = z.out, !.row_len = row_len]
        IN  IF ~z.ok THEN Raise([f EXCEPT !.bpp = bpp], "zlib.error")
            ELSE IF ~SizeOk(z.out, expected_len)
            THEN Raise(g, "has unexpected decompressed size")
            ELSE [g EXCEPT !.pc = "rows", !.out = Zeros(f.height * row_len),
                           !.raw_index = 0, !.y = 0])

\* From the end of the while loop to the start of the row loop.
AfterWalk(f) ==
    IF f.width = None \/ f.height = None \/ f.bit_depth = None \/ f.color_type = None
    THEN Raise(f, "is missing IHDR")
    ELSE IF f.bit_depth # 8 THEN Raise(f, "has unsupported bit depth")
    ELSE IF f.color_type = 6 THEN Decompress(f, 4)
    ELSE IF f.color_type = 3 THEN Decompress(f, 1)
    ELSE IF f.color_type \in {0, 2, 4} THEN Return(f, "False")
    ELSE Raise(f, "has unsupported color type")

\* Every filter-type byte accepted: an unknown one leaves the row as it is.
FilterAny(filter_type) == TRUE

\* filter_type is one of the five branches of the if chain.
FilterKnown(filter_type) == filter_type \in 0..4

\* out[y * row_len : (y + 1) * row_len] = row
StoreRow(out, y, row_len, row) ==
    [k \in 1..Len(out) |->
        IF k > y * row_len /\ k <= (y + 1) * row_len THEN row[k - y * row_len]
        ELSE out[k]]

\* One iteration of the row loop, entered with y < height.
ReconstructRow(f) ==
    LET filter_type == At(f.raw, f.raw_index)
        row  == Slice(f.raw, f.raw_index + 1, f.raw_index + 1 + f.row_len)
        prev == IF f.y > 0 THEN Slice(f.out, (f.y - 1) * f.row_len, f.y * f.row_len)
                ELSE Zeros(f.row_len)
        g    == [f EXCEPT !.raw_index = f.raw_index + 1 + f.row_len]
    IN  IF ~FilterKnown(filter_type) THEN Raise(g, "has unknown PNG filter type")
        ELSE [g EXCEPT !.out = StoreRow(f.out, f.y, f.row_len,
                                        ReconLoop(filter_type, row, prev, f.bpp, 0)),
                       !.y = f.y + 1]

\* out[3::4]: the bytes at 0-based offsets 3, 7, 11, ...
AlphaSamples(out) == {out[k] : k \in {j \in 1..Len(out) : j % 4 = 0}}

\* The palette branch scanning the raster's indices instead of the table.
PaletteFromRaster(f) == \E k \in 1..Len(f.out) : f.out[k] < 255

\* The colour type 3 branch: trns_chunk decides, the raster is not looked at.
PaletteTransparency(f) ==
    IF f.trns_chunk = NoneChunk THEN FALSE
    ELSE \E k \in 1..Len(f.trns_chunk) : f.trns_chunk[k] < 255

\* The colour type 6 branch reading the filtered stream instead of the raster.
AlphaFromRaw(f) == \E a \in AlphaSamples(f.raw) : a < 255

\* The colour type 6 branch: any(a < 255 for a in out[3::4]).
AlphaTransparency(f) == \E a \in AlphaSamples(f.out) : a < 255

Str(b) == IF b THEN "True" ELSE "False"

\* After the row loop: the return value.
Evaluate(f) ==
    IF f.color_type = 6 THEN Return(f, Str(AlphaTransparency(f)))
    ELSE Return(f, Str(PaletteTransparency(f)))

Finished(f) == f.pc \in {"returned", "raised"}

\* The next step of a call that has not finished.
StepCall(f) ==
    IF WalkOver(f) THEN AfterWalk(f)
    ELSE IF f.pc = "walk" THEN WalkChunk(f)
    ELSE IF f.y < f.height THEN ReconstructRow(f)
    ELSE Evaluate(f)

RECURSIVE RunCall(_)
RunCall(f) == IF Finished(f) THEN f ELSE RunCall(StepCall(f))

\* png_has_transparency(path) run to its end on a file holding data.
png_has_transparency(data) == RunCall(Enter(data))

-----------------------------------------------------------------------------
(* The files on disk: PNG containers built chunk by chunk *)

\* One chunk: length, type, payload and a CRC, which the script never verifies.
Chunk(type, payload) == PackU32(Len(payload)) \o type \o payload \o <<0, 0, 0, 0>>

Png(chunks) == PNG_SIGNATURE \o Concat(chunks)

Header(width, height, bit_depth, color_type) ==
    Chunk(IHDR, PackU32(width) \o PackU32(height) \o <<bit_depth, color_type, 0, 0, 0>>)

\* A zlib stream holding raw in one stored deflate block.
Deflate(raw) ==
    <<120, 1, 1, Len(raw) % 256, Len(raw) \div 256,
      (65535 - Len(raw)) % 256, (65535 - Len(raw)) \div 256>>
        \o raw \o Adler32(raw)

\* The bits of the n-bit integer v, most significant first, as Huffman
\* codes are stored.
CodeBits(v, n) == [k \in 1..n |-> (v \div (2 ^ (n - k))) % 2]

\* The fixed Huffman code of a literal byte: 8 bits from 00110000 for the
\* bytes below 144, 9 bits from 110010000 for the others.
LiteralCode(b) == IF b < 144 THEN CodeBits(48 + b, 8) ELSE CodeBits(400 + (b - 144), 9)

\* Bits packed into bytes, the first bit lowest, the last byte padded with 0.
PackBits(bits) ==
    [k \in 1..((Len(bits) + 7) \div 8) |->
        LET bit(j) == IF 8 * (k - 1) + j <= Len(bits) THEN bits[8 * (k - 1) + j] ELSE 0
        IN  bit(1) + 2 * bit(2) + 4 * bit(3) + 8 * bit(4) + 16 * bit(5)
              + 32 * bit(6) + 64 * bit(7) + 128 * bit(8)]

\* A zlib stream holding raw in one fixed Huffman block of literals: the
\* header bits BFINAL = 1 and BTYPE = 01, the literals, the end-of-block code.
DeflateFixed(raw) ==
    With(<<1, 1, 0>> \o Concat([k \in 1..Len(raw) |-> LiteralCode(raw[k])])
            \o <<0, 0, 0, 0, 0, 0, 0>>,
         LAMBDA bits : <<120, 156>> \o PackBits(bits) \o Adler32(raw))

\* The ways the files pack their stream.
Packings == {"stored", "fixed"}

Packed(packing, raw) == IF packing = "fixed" THEN DeflateFixed(raw) ELSE Deflate(raw)

Data(raw) == Chunk(IDAT, Deflate(raw))

End == Chunk(IEND, <<>>)

\* The PNG specification's Paeth predictor: the neighbour nearest to
\* a + b - c, the earlier of a, b, c on a tie.
PaethPredictor(a, b, c) ==
    LET p == a + b - c
        d(v) == Abs(p - v)
        best == Min(d(a), Min(d(b), d(c)))
    IN  IF d(a) = best THEN a ELSE IF d(b) = best THEN b ELSE c

\* The PNG specification's forward filter of the byte at position x of row y
\* of a raster; an unknown filter type leaves the byte as it is.
FilterByte(filter_type, raster, row_len, bpp, y, x) ==
    LET orig(yy, xx) == IF yy < 0 \/ xx < 0 THEN 0 ELSE At(raster, yy * row_len + xx)
        a == orig(y, x - bpp)
        b == orig(y - 1, x)
        c == orig(y - 1, x - bpp)
        pred == CASE filter_type = 1 -> a
                  [] filter_type = 2 -> b
                  [] filter_type = 3 -> (a + b) \div 2
                  [] filter_type = 4 -> PaethPredictor(a, b, c)
                  [] OTHER -> 0
    IN  (orig(y, x) + 256 - pred) % 256

\* The filtered stream of a raster: per row its filter-type byte and its bytes.
FilterStream(raster, row_len, height, bpp, filters) ==
    Concat([y \in 1..height |->
              <<filters[y]>> \o [x \in 1..row_len |->
                  FilterByte(filters[y], raster, row_len, bpp, y - 1, x - 1)]])

\* A complete image file; extra chunks go between IHDR and IDAT.
PackedImage(packing, color_type, bpp, width, height, raster, filters, extra) ==
    Png(<<Header(width, height, 8, color_type)>> \o extra
        \o <<Chunk(IDAT, Packed(packing, FilterStream(raster, width * bpp, height,
                                                        bpp, filters))),
              End>>)

Image(color_type, bpp, width, height, raster, filters, extra) ==
    PackedImage("stored", color_type, bpp, width, height, raster, filters, extra)

-----------------------------------------------------------------------------
(* The files the decoder is run on *)

\* 1x1 RGBA, every filter type, alpha 254 and 255.
OnePixelFiles ==
    {Image(6, 4, 1, 1, <<10, 20, 30, alpha>>, <<ft>>, <<>>) :
        alpha \in {254, 255}, ft \in 0..4}

\* RGBA rasters of two pixels, side by side and stacked, under filters that
\* make the filtered alpha bytes differ from the alpha samples.
TwoPixelFiles ==
    {Image(6, 4, 2, 1, <<1, 2, 3, 255>> \o <<1, 2, 3, alpha>>, <<ft>>, <<>>) :
        alpha \in {0, 255}, ft \in {0, 1, 3, 4}}
    \cup
    {Image(6, 4, 1, 2, <<9, 9, 9, 255>> \o <<9, 9, 9, alpha>>, fts, <<>>) :
        alpha \in {254, 255}, fts \in {<<0, 0>>, <<1, 2>>, <<2, 3>>, <<3, 4>>, <<4, 2>>}}

\* Empty rasters: width or height 0.
EmptyRasterFiles ==
    {Image(6, 4, 0, 1, <<>>, <<0>>, <<>>), Image(6, 4, 1, 0, <<>>, <<>>, <<>>),
     Image(3, 1, 0, 2, <<>>, <<0, 1>>, <<Chunk(tRNS, <<0>>)>>)}

TransparencyTables ==
    {<<>>, <<255>>, <<255, 255>>, <<255, 0>>, <<0, 255>>, <<254>>, <<255, 255, 7>>}

\* Palette images: no tRNS, one tRNS, two tRNS chunks (the later one stays).
PaletteFiles ==
    {Image(3, 1, 2, 1, raster, <<ft>>, <<>>) :
        raster \in {<<0, 0>>, <<0, 1>>, <<255, 255>>}, ft \in {0, 1}}
    \cup
    {Image(3, 1, 2, 1, raster, <<0>>, <<Chunk(tRNS, t)>>) :
        raster \in {<<0, 0>>, <<1, 2>>}, t \in TransparencyTables}
    \cup
    {Image(3, 1, 1, 2, <<0, 0>>, <<0, 2>>, <<Chunk(tRNS, t), Chunk(tRNS, u)>>) :
        t \in {<<255, 0>>, <<255>>}, u \in {<<0>>, <<255, 255>>}}

\* bytes per pixel of the colour types at bit depth 8, per the PNG format.
FormatBpp(color_type) ==
    CASE color_type = 0 -> 1
      [] color_type = 2 -> 3
      [] color_type = 3 -> 1
      [] color_type = 4 -> 2
      [] color_type = 6 -> 4
      [] OTHER -> 1

\* One-row images of the colour types without an alpha sample or table, with
\* a well-formed stream, a stream one byte short and an unknown filter type.
NoAlphaFiles ==
    {Png(<<Header(1, 1, 8, ct), Data(raw), End>>) :
        ct \in {0, 2, 4},
        raw \in {<<0, 7>>, <<0, 7, 8>>, <<0, 7, 8, 9>>, <<5, 7>>, <<5, 7, 8>>,
                 <<5, 7, 8, 9>>}}

\* Headers the script does not support.
UnsupportedFiles ==
    {Png(<<Header(1, 1, bd, ct), Data(<<0, 1, 2, 3, 4>>), End>>) :
        bd \in {8, 16}, ct \in {5, 6, 7}}

\* An unknown filter-type byte in row 0 or in row 1, after any filter type.
BadFilterFiles ==
    {Png(<<Header(1, 2, 8, 6),
           Data(FilterStream(<<1, 2, 3, 4, 5, 6, 7, 8>>, 4, 2, 4, fts)), End>>) :
        fts \in {<<k, bad>> : k \in 0..4, bad \in {5, 255}} \cup {<<5, 0>>, <<6, 5>>}}
    \cup
    {Png(<<Header(2, 2, 8, 3), Chunk(tRNS, <<0>>),
           Data(FilterStream(<<1, 2, 3, 4>>, 2, 2, 1, fts)), End>>) :
        fts \in {<<k, 5>> : k \in 0..4} \cup {<<5, 1>>}}

\* Streams that inflate to the wrong number of bytes, or do not inflate.
StreamFiles ==
    {Png(<<Header(1, 1, 8, ct), Data(raw), End>>) :
        ct \in {3, 6},
        raw \in {<<>>, <<0>>, <<0, 1, 2, 3>>, <<0, 1, 2, 3, 4, 5>>, <<5, 1, 2, 3>>,
                 <<5>>, <<0, 1, 2>>}}
    \cup
    {Png(<<Header(1, 1, 8, ct), Chunk(IDAT, z), End>>) :
        ct \in {3, 6},
        z \in {<<>>, <<120>>, <<120, 1>>, <<121, 1, 1, 0, 0, 255, 255, 0, 0, 0, 1>>,
               <<120, 1, 1, 2, 0, 253, 255, 0, 9, 0, 0, 0, 0>>,
               <<120, 1, 1, 2, 0, 253, 254, 0, 9, 0, 12, 0, 10>>,
               <<120, 1, 1, 2, 0, 253, 255, 0, 9, 0, 12, 0, 10, 1, 2>>,
               <<120, 1, 0, 1, 0, 254, 255, 0, 1, 1, 0, 254, 255, 9, 0, 12, 0, 10>>}}
    \cup
    {Png(<<Header(1, 1, 8, 6), End>>)}

\* Streams as zlib.compress writes them, with the size of the RGBA image each
\* holds: a fixed Huffman block of literals (alpha 254), fixed Huffman blocks
\* with a match (the second pixel row repeats the first; alpha 255
\* throughout, and alpha 0 in the last pixel), a dynamic Huffman block (alpha
\* 1, 0, 255, 0) and the empty stream.
CompressedStreams ==
    {<<1, 1, <<120, 156, 99, 224, 18, 145, 251, 7, 0, 1, 163, 1, 59>>>>,
     <<2, 2, <<120, 218, 99, 224, 228, 228, 252, 15, 194, 12, 48, 6, 0, 33, 246, 4, 105>>>>,
     <<2, 2, <<120, 218, 99, 224, 228, 228, 252, 15, 194, 12, 80, 6, 3, 0, 32, 247, 3,
               106>>>>,
     <<2, 2, <<120, 156, 5, 193, 1, 1, 0, 0, 0, 1, 160, 248, 255, 153, 98, 162, 197, 50,
               234, 28, 60, 3, 6>>>>,
     <<1, 0, <<120, 156, 3, 0, 0, 0, 0, 1>>>>,
     <<1, 1, <<120, 156, 3, 0, 0, 0, 0, 1>>>>,
     <<1, 2, <<120, 156, 99, 224, 18, 145, 251, 7, 0, 1, 163, 1, 59>>>>}

\* Huffman-coded streams inflate rejects, one for each of its complaints:
\* truncated stream, data check, bit length repeat, block type, missing
\* end-of-block, code lengths set, distance code, distance too far back,
\* distances set, literal/length code, literal/lengths set, too many length
\* or distance symbols.
CorruptStreams ==
    {<<120, 156, 99, 224, 18, 145, 251, 7, 0, 1, 163>>,
     <<120, 156, 99, 224, 18, 145, 251, 7, 0, 1, 163, 65, 58>>,
     <<120, 156, 5, 193, 1, 1, 0, 0, 0, 1, 160, 248, 255, 157>>,
     <<120, 156, 231>>,
     <<120, 156, 37, 193, 1, 1, 0, 0, 0, 1, 160, 248, 255, 155, 98, 162>>,
     <<120, 156, 5, 193, 0, 1, 0, 0>>,
     <<120, 218, 99, 224, 228, 196, 252>>,
     <<120, 218, 67, 224>>,
     <<120, 156, 5, 193, 1, 1, 0, 0, 0, 1, 160, 248, 255, 153, 96>>,
     <<120, 156, 99, 224, 26, 147>>,
     <<120, 156, 5, 193, 1, 1, 0, 0, 0, 1, 160, 248, 127, 153, 98>>,
     <<120, 156, 4, 193, 1, 1, 0, 0, 0, 1, 160, 248, 255, 153, 98, 162, 197, 50, 234,
       28, 62, 3, 6>>}

\* Files whose stream is Huffman-coded: the images of the direct-alpha and
\* palette models, streams of every size under every colour type, unknown
\* filter types, compressed streams and corrupt ones.
HuffmanFiles ==
    {PackedImage("fixed", 6, 4, 1, 1, <<10, 20, 30, alpha>>, <<ft>>, <<>>) :
        alpha \in {254, 255}, ft \in 0..4}
    \cup
    {PackedImage("fixed", 3, 1, 2, 1, raster, <<ft>>, <<Chunk(tRNS, t)>>) :
        raster \in {<<0, 0>>, <<1, 2>>}, ft \in {0, 1}, t \in {<<255>>, <<255, 0>>}}
    \cup
    {Png(<<Header(1, 1, 8, ct), Chunk(IDAT, DeflateFixed(raw)), End>>) :
        ct \in {0, 2, 3, 4, 6},
        raw \in {<<>>, <<0, 7>>, <<5, 7>>, <<0, 1, 2, 3>>, <<0, 1, 2, 3, 200>>,
                 <<5, 1, 2, 3, 4>>, <<0, 1, 2, 3, 4, 5>>}}
    \cup
    {Png(<<Header(c[1], c[2], 8, 6), Chunk(IDAT, c[3]), End>>) : c \in CompressedStreams}
    \cup
    {Png(<<Header(1, 1, 8, ct), Chunk(IDAT, z), End>>) :
        ct \in {2, 3, 6}, z \in CorruptStreams}

Opaque == <<0, 10, 20, 30, 255>>

\* The chunks of the reference file: one opaque RGBA pixel.
BaseChunks == <<Header(1, 1, 8, 6), Data(Opaque), End>>

BaseFile == Png(BaseChunks)

\* Every proper prefix of the reference file: each way of truncating it.
TruncatedFiles == {SubSeq(BaseFile, 1, n) : n \in 0..(Len(BaseFile) - 1)}

\* Records after the terminal chunk.
Trailers ==
    {<<>>, <<1, 2, 3>>, <<0, 0, 0, 9, 73, 68, 65, 84, 1>>, Header(1, 1, 8, 3),
     Header(1, 1, 16, 6), Chunk(IHDR, <<1>>), Chunk(tRNS, <<0>>),
     Data(<<0, 1, 2, 3, 4>>), Header(2, 1, 8, 6) \o End, End}

TrailerFiles ==
    {Png(<<Header(1, 1, 8, 6), Data(<<0, 10, 20, 30, alpha>>), End>>) \o t :
        alpha \in {0, 255}, t \in Trailers}
    \cup
    {Png(<<Header(1, 1, 8, 3), Chunk(tRNS, <<255>>), Data(<<0, 0>>), End>>) \o t :
        t \in Trailers}
    \cup
    {Png(<<End>>) \o t : t \in Trailers}

\* The stream split over IDAT chunks, and unknown chunks in between.
SplitFiles ==
    LET z == Deflate(<<0, 10, 20, 30, 77>>)
        text == Chunk(<<116, 69, 88, 116>>, <<65, 66>>)
    IN  {Png(<<Header(1, 1, 8, 6), Chunk(IDAT, SubSeq(z, 1, n))>> \o mid
             \o <<Chunk(IDAT, SubSeq(z, n + 1, Len(z)))>> \o tail) :
            n \in {0, 1, 7, Len(z)}, mid \in {<<>>, <<text>>},
            tail \in {<<>>, <<End>>}}

\* Header chunks that are missing, late, repeated or of the wrong size.
HeaderFiles ==
    {Png(chunks) : chunks \in {
        <<>>,
        <<Data(Opaque), End>>,
        <<Data(Opaque), Header(1, 1, 8, 6), End>>,
        <<Chunk(tRNS, <<0>>), Header(1, 1, 8, 3), Data(<<0, 0>>), End>>,
        <<Header(1, 1, 8, 6), Header(1, 1, 8, 2), Data(Opaque), End>>,
        <<Header(1, 1, 8, 2), Header(1, 1, 8, 6), Data(Opaque), End>>,
        <<Header(1, 1, 8, 6), Data(Opaque), Header(2, 1, 8, 6), End>>,
        <<Header(1, 1, 8, 6), Data(Opaque), Header(1, 1, 8, 6), End>>,
        <<Header(1, 1, 8, 6), Data(Opaque), Header(1, 1, 16, 6), End>>,
        <<Chunk(IHDR, <<0, 0, 0, 1, 0, 0, 0, 1, 8, 6, 0, 0>>), Data(Opaque), End>>,
        <<Chunk(IHDR, <<0, 0, 0, 1, 0, 0, 0, 1, 8, 6, 0, 0, 0, 0>>), Data(Opaque), End>>,
        <<Chunk(IHDR, <<>>), Header(1, 1, 8, 6), Data(Opaque), End>>,
        <<Header(1, 1, 8, 6), Data(Opaque), Chunk(IHDR, <<1, 2>>), End>>}}

\* Files that are not PNG containers.
ForeignFiles == {<<>>, <<137, 80, 78, 71>>, <<137, 80, 78, 71, 13, 10, 26, 11, 0>>,
                 <<71, 73, 70, 56, 57, 97, 1, 0, 1, 0>>}

Files ==
    OnePixelFiles \cup TwoPixelFiles \cup EmptyRasterFiles \cup PaletteFiles
        \cup NoAlphaFiles \cup UnsupportedFiles \cup BadFilterFiles \cup StreamFiles
        \cup HuffmanFiles \cup TruncatedFiles \cup TrailerFiles \cup SplitFiles
        \cup HeaderFiles \cup ForeignFiles

-----------------------------------------------------------------------------
(* main() *)

\* icon_path.exists() is false.
NoFile == <<None>>

\* What main() may find at an icon's path.
IconFiles ==
    {NoFile, BaseFile, <<71, 73, 70>>, SubSeq(BaseFile, 1, Len(BaseFile) - 1),
     Png(<<Header(1, 1, 8, 6),
           Chunk(IDAT, <<120, 156, 99, 224, 18, 145, 251, 7, 0, 1, 163, 1, 59>>), End>>),
     Png(<<Header(1, 1, 8, 3), Chunk(tRNS, <<0>>), Data(<<0, 0>>), End>>),
     Png(<<Header(1, 1, 8, 6), Data(<<5, 1, 2, 3, 4>>), End>>),
     Png(<<Header(1, 2, 8, 6),
           Chunk(IDAT, DeflateFixed(<<4, 1, 2, 3, 4, 7, 1, 2, 3, 4>>)), End>>),
     Png(<<Header(1, 2, 8, 3), Chunk(tRNS, <<0>>), Data(<<1, 0, 5, 0>>), End>>),
     Png(<<Header(2, 1, 8, 3), Chunk(IDAT, <<120, 218, 67, 224>>), End>>),
     Png(<<Header(1, 1, 8, 2), Data(<<5, 1, 2, 3>>), End>>),
     Png(<<Header(1, 2, 8, 0), Data(<<0, 1, 6, 1>>), End>>),
     Png(<<Header(1, 1, 8, 4), Data(<<255, 1, 2>>), End>>)}

\* The failure lines main() prints, without the path's text.
MissingLine(k) == [line |-> "Missing icon file", icon |-> k, exc |-> ""]

NoTransparencyLine(k) == [line |-> "No transparent pixels found in", icon |-> k, exc |-> ""]

FailedLine(k, exc) == [line |-> "Failed to validate", icon |-> k, exc |-> exc]

\* for icon_path in REQUIRED_ICON_FILES: if not icon_path.exists(): ... continue
IconMissing ==
    /\ pc = "loop"
    /\ icon <= NumIcons
    /\ NoFile \in IconFiles
    /\ failures' = Append(failures, MissingLine(icon))
    /\ evaluated' = Append(evaluated, [icon |-> icon, outcome |-> "missing"])
    /\ icon' = icon + 1
    /\ UNCHANGED <<pc, exit_code, frame, fixture, args, ret>>

\* The icon exists: png_has_transparency(icon_path) is entered.
CallPng ==
    /\ pc = "loop"
    /\ icon <= NumIcons
    /\ \E data \in IconFiles \ {NoFile} : frame' = Enter(data)
    /\ pc' = "call"
    /\ UNCHANGED <<icon, failures, evaluated, exit_code, fixture, args, ret>>

\* One iteration of the chunk loop.
Walk ==
    /\ pc = "call"
    /\ frame.pc = "walk"
    /\ frame.i < Len(frame.data)
    /\ frame' = WalkChunk(frame)
    /\ UNCHANGED <<pc, icon, failures, evaluated, exit_code, fixture, args, ret>>

\* The header checks, the inflate and the size test.
Check ==
    /\ pc = "call"
    /\ WalkOver(frame)
    /\ frame' = AfterWalk(frame)
    /\ UNCHANGED <<pc, icon, failures, evaluated, exit_code, fixture, args, ret>>

\* One iteration of the row loop.
Row ==
    /\ pc = "call"
    /\ frame.pc = "rows"
    /\ frame.y < frame.height
    /\ frame' = ReconstructRow(frame)
    /\ UNCHANGED <<pc, icon, failures, evaluated, exit_code, fixture, args, ret>>

\* The row loop is over: the transparency test.
Eval ==
    /\ pc = "call"
    /\ frame.pc = "rows"
    /\ frame.y >= frame.height
    /\ frame' = Evaluate(frame)
    /\ UNCHANGED <<pc, icon, failures, evaluated, exit_code, fixture, args, ret>>

\* The failure line, if any, for the finished call f on icon k.
FailureLines(f, k) ==
    IF f.pc = "raised" THEN <<FailedLine(k, f.result)>>
    ELSE IF f.result = "False" THEN <<NoTransparencyLine(k)>>
    ELSE <<>>

\* An except clause that lets the exception out of main().
HandleAbort(f) == f.pc = "raised"

\* The exception leaves main(): never, "except Exception" catches them all.
Uncaught(f) == FALSE

\* The call returns or raises into main()'s try statement.
Handle ==
    /\ pc = "call"
    /\ Finished(frame)
    /\ failures' = failures \o FailureLines(frame, icon)
    /\ evaluated' = Append(evaluated, [icon |-> icon, outcome |-> frame.result])
    /\ IF Uncaught(frame)
       THEN pc' = "done" /\ icon' = icon /\ exit_code' = 1
       ELSE pc' = "loop" /\ icon' = icon + 1 /\ exit_code' = exit_code
    /\ frame' = NoFrame
    /\ UNCHANGED <<fixture, args, ret>>

\* After the loop: main() returns 1 if there are failures and 0 if not.
Finish ==
    /\ pc = "loop"
    /\ icon > NumIcons
    /\ exit_code' = IF failures # <<>> THEN 1 ELSE 0
    /\ pc' = "done"
    /\ UNCHANGED <<icon, failures, evaluated, frame, fixture, args, ret>>

Init ==
    /\ pc = "loop"
    /\ icon = 1
    /\ failures = <<>>
    /\ evaluated = <<>>
    /\ exit_code = None
    /\ frame = NoFrame
    /\ fixture = <<>>
    /\ args = <<>>
    /\ ret = None

Next == IconMissing \/ CallPng \/ Walk \/ Check \/ Row \/ Eval \/ Handle \/ Finish

\* main() over the four required icons.
Spec == Init /\ [][Next]_vars

-----------------------------------------------------------------------------
(* png_has_transparency() alone, on every file of Files *)

InitDecode ==
    /\ pc = "call"
    /\ icon = 1
    /\ failures = <<>>
    /\ evaluated = <<>>
    /\ exit_code = None
    /\ \E data \in Files : frame = Enter(data)
    /\ fixture = <<>>
    /\ args = <<>>
    /\ ret = None

NextDecode == Walk \/ Check \/ Row \/ Eval

SpecDecode == InitDecode /\ [][NextDecode]_vars

-----------------------------------------------------------------------------
(* Reading a file by the PNG format's rules, for stating the properties *)

RECURSIVE ChunksFrom(_, _)
\* The complete chunks of data from 0-based offset off, in file order, up to
\* and including the first IEND chunk; stop is the offset after the CRC.
ChunksFrom(data, off) ==
    IF off + 12 > Len(data) THEN <<>>
    ELSE LET length == U32(data, off)
             stop   == off + 12 + length
             type   == SubSeq(data, off + 5, off + 8)
         IN  IF stop > Len(data) THEN <<>>
             ELSE <<[type |-> type, payload |-> SubSeq(data, off + 9, off + 8 + length),
                     start |-> off, stop |-> stop]>>
                  \o (IF type = IEND THEN <<>> ELSE ChunksFrom(data, stop))

Chunks(data) == IF StartsWith(data, PNG_SIGNATURE) THEN ChunksFrom(data, 8) ELSE <<>>

Last(seq) == seq[Len(seq)]

\* The offset just after the first IEND chunk, 0 if the file has none.
IendEnd(data) ==
    LET cs == Chunks(data)
    IN  IF cs # <<>> /\ Last(cs).type = IEND THEN Last(cs).stop ELSE 0

\* The tRNS payloads before the terminal chunk, in file order.
Tables(data) == SelectSeq(Chunks(data), LAMBDA c : c.type = tRNS)

WalkErrors ==
    {"is not a PNG file", "is truncated (invalid chunk header)",
     "is truncated (invalid chunk length)", "struct.error"}

\* The call f is over and its chunk walk ran to the end of the loop.
WalkCompleted(f) == Finished(f) /\ f.result \notin WalkErrors

-----------------------------------------------------------------------------
(* C1: main() evaluates every required icon exactly once and in list order,
   whatever the earlier icons' outcomes; it records exactly one failure line
   per failing icon (missing, exception, or False) and none for an icon that
   yields True; it returns 1 if some icon failed and 0 only if all four exist,
   decode and yield True. *)

RECURSIVE LinesOf(_)
LinesOf(log) ==
    IF log = <<>> THEN <<>>
    ELSE LET e == Head(log)
         IN  (CASE e.outcome = "True" -> <<>>
                [] e.outcome = "missing" -> <<MissingLine(e.icon)>>
                [] e.outcome = "False" -> <<NoTransparencyLine(e.icon)>>
                [] OTHER -> <<FailedLine(e.icon, e.outcome)>>)
             \o LinesOf(Tail(log))

C1_MainEvaluatesAll ==
    /\ \A k \in 1..Len(evaluated) : evaluated[k].icon = k
    /\ Len(evaluated) = icon - 1
    /\ icon <= NumIcons + 1
    /\ failures = LinesOf(evaluated)
    /\ pc = "done" =>
        /\ Len(evaluated) = NumIcons
        /\ exit_code = IF \E k \in 1..NumIcons : evaluated[k].outcome # "True"
                       THEN 1 ELSE 0
    /\ pc # "done" => exit_code = None

C1_Witness ==
    /\ pc = "done"
    /\ exit_code = 1
    /\ evaluated[1].outcome = "has unknown PNG filter type"
    /\ evaluated[2].outcome = "missing"
    /\ evaluated[3].outcome = "False"
    /\ evaluated[4].outcome = "True"
    /\ Len(failures) = 3

-----------------------------------------------------------------------------
(* C2: for a colour type 6, bit depth 8 file that decodes without error the
   result is True exactly when some byte at offset 3 mod 4 of the
   reconstructed raster is below 255; a 1x1 pixel gives True for alpha 254 and
   False for alpha 255 under every filter type. *)

C2_DirectAlpha ==
    (frame.pc = "returned" /\ frame.color_type = 6) =>
        /\ (frame.result = "True") <=>
             (\E k \in 0..(Len(frame.out) - 1) : k % 4 = 3 /\ At(frame.out, k) < 255)
        /\ (frame.width = 1 /\ frame.height = 1) =>
             ((frame.result = "True") <=> (At(frame.raw, 4) < 255))

C2_Witness ==
    /\ frame.pc = "returned"
    /\ frame.color_type = 6
    /\ frame.height = 2
    /\ frame.result = "False"
    /\ At(frame.raw, 9) < 255

-----------------------------------------------------------------------------
(* C3: for a colour type 3, bit depth 8 file that decodes without error the
   result is False when no tRNS chunk comes before the terminal chunk, and
   otherwise True exactly when some entry of the transparency table (the last
   tRNS chunk read) is below 255, whatever indices the raster holds. *)

C3_Palette ==
    (frame.pc = "returned" /\ frame.color_type = 3) =>
        LET ts == Tables(frame.data)
        IN  (frame.result = "True") <=>
              /\ ts # <<>>
              /\ \E k \in 1..Len(Last(ts).payload) : Last(ts).payload[k] < 255

C3_Witness ==
    /\ frame.pc = "returned"
    /\ frame.color_type = 3
    /\ frame.result = "True"
    /\ frame.out = <<0, 0>>
    /\ Len(Tables(frame.data)) = 1
    /\ Last(Tables(frame.data)).payload = <<255, 0>>

-----------------------------------------------------------------------------
(* C4: in the chunk walk at offset i < len(data), if fewer than 8 bytes remain
   or i + 8 + length + 4 exceeds len(data), the call raises a truncation
   error at once; the offset never passes the end of the buffer. *)

TruncationErrors ==
    {"is truncated (invalid chunk header)", "is truncated (invalid chunk length)"}

TruncatedAt(data, i) ==
    \/ Len(data) - i < 8
    \/ i + 8 + U32(data, i) + 4 > Len(data)

C4_Truncation ==
    [][ /\ (frame.pc = "walk" /\ frame.i < Len(frame.data)
               /\ TruncatedAt(frame.data, frame.i)) =>
            /\ frame'.pc = "raised"
            /\ frame'.result \in TruncationErrors
        /\ frame'.pc \in {"walk", "check"} => frame'.i <= Len(frame'.data) ]_vars

C4_Witness ==
    /\ frame.pc = "raised"
    /\ frame.result = "is truncated (invalid chunk length)"
    /\ Slice(frame.data, frame.i + 4, frame.i + 8) = IEND
    /\ frame.i + 8 + U32(frame.data, frame.i) <= Len(frame.data)
    /\ frame.idat # <<>>

-----------------------------------------------------------------------------
(* C5: a file with a valid signature, a header, bit depth 8 and colour type 3
   or 6 whose chunk walk and inflate succeed but whose inflated stream is not
   height * (1 + row_length) bytes long fails with the decompressed-size
   error and returns no boolean. *)

SizeMismatch(f, types) ==
    /\ WalkCompleted(f)
    /\ f.width # None
    /\ f.bit_depth = 8
    /\ f.color_type \in types
    /\ Inflate(f.idat).ok
    /\ Len(Inflate(f.idat).out) # f.height * (1 + f.width * FormatBpp(f.color_type))

C5_SizeMismatchRaises ==
    SizeMismatch(frame, {3, 6}) =>
        frame.pc = "raised" /\ frame.result = "has unexpected decompressed size"

C5_Witness ==
    /\ SizeMismatch(frame, {3})
    /\ Len(frame.raw) + 1 = frame.height * (1 + frame.row_len)
    /\ frame.result = "has unexpected decompressed size"

(* C5 as stated: the same for every recognized colour type, the colour types
   0, 2 and 4 included. *)
C5_AsStated ==
    SizeMismatch(frame, {0, 2, 3, 4, 6}) =>
        frame.pc = "raised" /\ frame.result = "has unexpected decompressed size"

-----------------------------------------------------------------------------
(* C6: the chunk walk takes the chunks in file order, each step moving the
   offset forward to the end of the chunk it read; it stops for good at the
   first IEND chunk; header values, transparency table, compressed payload
   and outcome are those of the file cut off after that chunk, whatever
   bytes follow it. *)

Walked(f) == <<f.width, f.height, f.bit_depth, f.color_type, f.trns_chunk, f.idat>>

C6_StopsAtIend ==
    [][ /\ (frame.pc = "walk" /\ frame'.pc \in {"walk", "check"}) =>
            /\ frame'.i = frame.i + 12 + U32(frame.data, frame.i)
            /\ frame'.i > frame.i
        /\ (frame.pc = "walk" /\ frame.i < Len(frame.data)
               /\ ~TruncatedAt(frame.data, frame.i)
               /\ Slice(frame.data, frame.i + 4, frame.i + 8) = IEND) =>
            /\ frame'.pc = "check"
            /\ frame'.i = IendEnd(frame.data)
        /\ frame.pc # "walk" =>
            /\ frame'.pc # "walk"
            /\ frame'.i = frame.i
            /\ Walked(frame') = Walked(frame)
        /\ (Finished(frame') /\ IendEnd(frame'.data) > 0) =>
            LET cut == png_has_transparency(SubSeq(frame'.data, 1, IendEnd(frame'.data)))
            IN  /\ frame'.pc = cut.pc
                /\ frame'.result = cut.result
                /\ frame'.i = cut.i
                /\ Walked(frame') = Walked(cut) ]_vars

C6_Witness ==
    /\ frame.pc = "returned"
    /\ frame.result = "True"
    /\ frame.color_type = 6
    /\ IendEnd(frame.data) = frame.i
    /\ Len(frame.data) = frame.i + 25
    /\ Slice(frame.data, frame.i + 4, frame.i + 8) = IHDR
    /\ At(frame.data, frame.i + 17) = 3

-----------------------------------------------------------------------------
(* C7: in a colour type 3 or 6 file whose inflated stream has the expected
   length, an unknown filter-type byte (outside 0..4) in any row makes the
   call raise the unknown-filter-type error, whatever the filter types of
   the rows before; main() records one failure line for that icon and goes
   on to the next one. *)

BadFilterRow(f, types) ==
    /\ WalkCompleted(f)
    /\ f.width # None
    /\ f.bit_depth = 8
    /\ f.color_type \in types
    /\ Inflate(f.idat).ok
    /\ LET stream == Inflate(f.idat).out
           stride == 1 + f.width * FormatBpp(f.color_type)
       IN  /\ Len(stream) = f.height * stride
           /\ \E y \in 0..(f.height - 1) : At(stream, y * stride) \notin 0..4

FilterFailure(types) ==
    /\ (Finished(frame') /\ BadFilterRow(frame', types)) =>
        /\ frame'.pc = "raised"
        /\ frame'.result = "has unknown PNG filter type"
    /\ (Finished(frame) /\ BadFilterRow(frame, types)) =>
        /\ pc' = "loop"
        /\ icon' = icon + 1
        /\ failures' = Append(failures, FailedLine(icon, "has unknown PNG filter type"))
    /\ (pc = "loop" /\ icon <= NumIcons) =>
        (pc' = "call" \/ Len(evaluated') = Len(evaluated) + 1)
    /\ pc' = "done" => Len(evaluated') = NumIcons

C7_UnknownFilter == [][FilterFailure({3, 6})]_vars

C7_Witness ==
    /\ pc = "call"
    /\ icon = 2
    /\ evaluated[1].outcome = "has unknown PNG filter type"
    /\ BadFilterRow(frame, {3, 6})
    /\ frame.y = 1
    /\ At(frame.raw, 0) \in 1..4

(* C7 as stated: the same whatever the colour type, 0, 2 and 4 included. *)
C7_AsStated == [][FilterFailure({0, 2, 3, 4, 6})]_vars

-----------------------------------------------------------------------------
(* C10: the header values come from the IHDR chunk at chunk index 0, are
   assigned once and never change afterwards, a second IHDR chunk included;
   a file whose first chunk is not a 13-byte IHDR chunk fails instead of
   being decoded with header values found later in the file. *)

HeaderOf(f) == <<f.width, f.height, f.bit_depth, f.color_type>>

FirstChunkIsHeader(data) ==
    /\ Chunks(data) # <<>>
    /\ Head(Chunks(data)).type = IHDR
    /\ Len(Head(Chunks(data)).payload) = IHDRSize

C10_HeaderOnce ==
    [][ /\ (frame.pc = "walk" /\ frame.width # None) => HeaderOf(frame') = HeaderOf(frame)
        /\ (frame.pc = "walk" /\ HeaderOf(frame') # HeaderOf(frame)) =>
            frame.i = Len(PNG_SIGNATURE)
        /\ (WalkCompleted(frame') /\ ~FirstChunkIsHeader(frame'.data)) =>
            /\ frame'.pc = "raised"
            /\ frame'.result = "is missing IHDR" ]_vars

-----------------------------------------------------------------------------
(* The scanline filters end to end: rasters filtered by the PNG format's
   forward filters, packed into files and decoded *)

MaxWidth == 2

MaxHeight == 3

\* Rasters by seed, stride and curvature: byte k is s + d*k + q*k*k mod 256.
Patterns ==
    {<<0, 0, 0>>, <<255, 0, 0>>, <<0, 1, 0>>, <<100, 85, 0>>, <<255, 1, 3>>,
     <<7, 85, 3>>, <<250, 3, 0>>, <<128, 127, 5>>, <<1, 255, 0>>, <<200, 37, 11>>}

Raster(pat, n) == [k \in 1..n |-> (pat[1] + pat[2] * (k - 1) + pat[3] * (k - 1) * (k - 1)) % 256]

InitFilter ==
    /\ pc = "call"
    /\ icon = 1
    /\ failures = <<>>
    /\ evaluated = <<>>
    /\ exit_code = None
    /\ \E ct \in {3, 6}, w \in 1..MaxWidth, h \in 1..MaxHeight, pat \in Patterns,
          packing \in Packings :
         \E fts \in [1..h -> 0..4] :
            LET bpp == FormatBpp(ct)
                raster == Raster(pat, h * w * bpp)
            IN  /\ fixture = [color_type |-> ct, bpp |-> bpp, width |-> w,
                              height |-> h, raster |-> raster, filters |-> fts]
                /\ frame = Enter(PackedImage(packing, ct, bpp, w, h, raster, fts, <<>>))
    /\ args = <<>>
    /\ ret = None

SpecFilter == InitFilter /\ [][NextDecode]_vars

\* The stream's bytes without the filter-type byte of each row.
Strip(raw, row_len) == SelectSeq([k \in 1..Len(raw) |-> IF (k - 1) % (row_len + 1) = 0
                                                         THEN None ELSE raw[k]],
                                 LAMBDA b : b # None)

(* C8: reconstruction inverts the PNG row filters: a raster of height *
   row_length bytes, filtered with the standard forward filters under any
   per-row sequence of filter types 0..4 for bpp 1 and 4, is reconstructed
   exactly, row by row, with row 0 and the positions x < bpp reading zeros;
   with filter type 0 on every row the output equals the filtered bytes. *)
C8_RoundTrip ==
    /\ frame.pc # "raised"
    /\ frame.pc \in {"rows", "returned"} =>
        /\ frame.bpp = fixture.bpp
        /\ frame.raw = FilterStream(fixture.raster, fixture.width * fixture.bpp,
                                    fixture.height, fixture.bpp, fixture.filters)
        /\ Len(frame.out) = Len(fixture.raster)
    /\ frame.pc = "rows" =>
        SubSeq(frame.out, 1, frame.y * frame.row_len)
            = SubSeq(fixture.raster, 1, frame.y * frame.row_len)
    /\ frame.pc = "returned" =>
        /\ frame.out = fixture.raster
        /\ (\A y \in 1..fixture.height : fixture.filters[y] = 0) =>
             frame.out = Strip(frame.raw, frame.row_len)

C8_Witness ==
    /\ frame.pc = "returned"
    /\ fixture.color_type = 6
    /\ fixture.width = 2
    /\ fixture.filters = <<4, 3, 1>>
    /\ frame.out = fixture.raster
    /\ \E k \in 1..Len(frame.out) : Strip(frame.raw, frame.row_len)[k] # frame.out[k]

-----------------------------------------------------------------------------
(* _paeth on its own *)

PaethSpread == 3

\* Bytes near 0, near 128 and near 255, and the values 5 and 10 of the
\* worked examples _paeth(5, 5, 5) and _paeth(10, 5, 0).
PaethBytes ==
    {x \in 0..255 : \/ x <= PaethSpread
                    \/ x >= 255 - PaethSpread
                    \/ (x >= 128 - PaethSpread /\ x <= 128 + PaethSpread)
                    \/ x \in {5, 10}}

InitPaeth ==
    /\ pc = "loop"
    /\ icon = 1
    /\ failures = <<>>
    /\ evaluated = <<>>
    /\ exit_code = None
    /\ frame = NoFrame
    /\ fixture = <<>>
    /\ args \in PaethBytes \X PaethBytes \X PaethBytes
    /\ ret = None

CallPaeth ==
    /\ ret = None
    /\ ret' = _paeth(args[1], args[2], args[3])
    /\ UNCHANGED <<pc, icon, failures, evaluated, exit_code, frame, fixture, args>>

SpecPaeth == InitPaeth /\ [][CallPaeth]_vars

\* _paeth's result is the first of a, b, c at the least distance from a + b - c.
NearestFirst(pa_eq_pb_at_10_5_0) ==
    ret # None =>
        LET a == args[1]
            b == args[2]
            c == args[3]
            p == a + b - c
            pa == Abs(p - a)
            pb == Abs(p - b)
            pc_ == Abs(p - c)
        IN  /\ ret \in {a, b, c}
            /\ Abs(p - ret) <= pa /\ Abs(p - ret) <= pb /\ Abs(p - ret) <= pc_
            /\ (pa <= pb /\ pa <= pc_) => ret = a
            /\ (~(pa <= pb /\ pa <= pc_) /\ pb <= pc_) => ret = b
            /\ (~(pa <= pb /\ pa <= pc_) /\ ~(pb <= pc_)) => ret = c
            /\ args = <<5, 5, 5>> => ret = 5
            /\ args = <<10, 5, 0>> => (ret = a /\ (pa_eq_pb_at_10_5_0 => pa = pb))

(* C9: for all bytes a, b, c, _paeth(a, b, c) is one of a, b, c at the least
   distance from p = a + b - c, ties going to a, then b, then c;
   _paeth(5, 5, 5) = 5 and _paeth(10, 5, 0) = 10 (there pa = 5 and pb = 10:
   a wins outright, not by a tie). *)
C9_Paeth == NearestFirst(FALSE)

C9_Witness ==
    /\ args = <<3, 0, 1>>
    /\ ret = 3

(* C9 as stated: the same, with pa = pb at _paeth(10, 5, 0). *)
C9_AsStated == NearestFirst(TRUE)

=============================================================================
